---- MODULE Spec2Model ----
(***************************************************************************)
(* Model of the bookid Google Books client: the query classifier           *)
(* (googlebooks/parser.go, ParseQuery) and the result scorer/projection    *)
(* (googlebooks/client.go, Search, volumeToBookResult,                     *)
(* calculateConfidence).                                                   *)
(*                                                                         *)
(* Strings are sequences of one-character strings.  Confidence values are  *)
(* exact decimals counted in units of 1/Unit (95000 is 0.95); float64      *)
(* rounding, at most one ulp of these values, is not modelled.             *)
(***************************************************************************)
EXTENDS Integers, Sequences, FiniteSets, TLC

VARIABLES
    pc,         \* position of the operation being run
    input,      \* the query string handed to ParseQuery or Search
    parsed,     \* what ParseQuery returned: [query, searchType, isbn]
    searchType, \* the search type handed to volumeToBookResult
    detected,   \* the detected ISBN handed to volumeToBookResult
    volume,     \* the books.Volume handed to volumeToBookResult
    result,     \* the BookResult volumeToBookResult returned
    items,      \* resp.Items, the volumes the collaborator returned
    results,    \* the []BookResult Search returned
    err,        \* the error Search returned ("" is nil)
    doErr,      \* the error call.Do() returned ("" is nil)
    calls       \* number of call.Do() executions of the Search invocation

vars == <<pc, input, parsed, searchType, detected, volume, result, items, results, err, doErr, calls>>

-----------------------------------------------------------------------------
(* Characters and strings *)

Digits == {"0", "1", "2", "3", "4", "5", "6", "7", "8", "9"}

LowerSeq == <<"a", "b", "c", "d", "e", "f", "g", "h", "i", "j", "k", "l", "m",
              "n", "o", "p", "q", "r", "s", "t", "u", "v", "w", "x", "y", "z">>

UpperSeq == <<"A", "B", "C", "D", "E", "F", "G", "H", "I", "J", "K", "L", "M",
              "N", "O", "P", "Q", "R", "S", "T", "U", "V", "W", "X", "Y", "Z">>

Letters == {LowerSeq[i] : i \in DOMAIN LowerSeq} \cup {UpperSeq[i] : i \in DOMAIN UpperSeq}

\* \w of the regexp package: [0-9A-Za-z_]
WordChars == Digits \cup Letters \cup {"_"}

\* \s of the regexp package: [\t\n\f\r ]
Space == {" ", "\t", "\n", "\f", "\r"}

\* [-\s], the separator class of the two ISBN patterns
SepClass == {"-"} \cup Space

\* the characters that take two bytes in UTF-8
TwoByteChars == {"é"}

\* simple case folding of (?i)
ToLower(c) ==
    IF \E i \in DOMAIN UpperSeq : UpperSeq[i] = c
    THEN LowerSeq[CHOOSE i \in DOMAIN UpperSeq : UpperSeq[i] = c]
    ELSE c

\* len(s) of a Go string: its length in bytes
RECURSIVE ByteLen(_)
ByteLen(s) ==
    IF s = <<>> THEN 0
    ELSE (IF Head(s) \in TwoByteChars THEN 2 ELSE 1) + ByteLen(Tail(s))

\* strings.TrimSpace
TrimSpace(s) ==
    LET keep == {i \in DOMAIN s : s[i] \notin Space}
    IN  IF keep = {} THEN <<>>
        ELSE LET lo == CHOOSE i \in keep : \A j \in keep : i <= j
                 hi == CHOOSE i \in keep : \A j \in keep : j <= i
             IN  SubSeq(s, lo, hi)

\* strings.ReplaceAll(s, c, "") for a one-character c
RemoveChar(s, c) == SelectSeq(s, LAMBDA x : x # c)

\* strings.HasPrefix
HasPrefix(s, p) == Len(s) >= Len(p) /\ SubSeq(s, 1, Len(p)) = p

\* strings.Contains
Contains(s, sub) ==
    \E i \in 1..(Len(s) + 1) :
        i + Len(sub) - 1 <= Len(s) /\ SubSeq(s, i, i + Len(sub) - 1) = sub

-----------------------------------------------------------------------------
(* Regular expressions: a pattern is a sequence of greedy pieces           *)
(* [cls, min, max] wrapped in \b ... \b; matching is leftmost-first.       *)

Piece(cls, min, max) == [cls |-> cls, min |-> min, max |-> max]

NoMatch == -1

\* \b at the gap before s[pos]
IsWordAt(s, i) == i \in DOMAIN s /\ s[i] \in WordChars
WordBoundary(s, pos) == IsWordAt(s, pos - 1) # IsWordAt(s, pos)

\* how many characters of class cls, at most max, start at s[pos]
RunLen(cls, max, s, pos) ==
    CHOOSE n \in 0..max :
        /\ \A i \in 0..(n - 1) : (pos + i) \in DOMAIN s /\ s[pos + i] \in cls
        /\ n = max \/ (pos + n) \notin DOMAIN s \/ s[pos + n] \notin cls

RECURSIVE MatchHere(_, _, _, _)
RECURSIVE TryCount(_, _, _, _, _)

\* the position after the preferred match of pieces k.. at s[pos], followed by \b
MatchHere(pat, k, s, pos) ==
    IF k > Len(pat)
    THEN IF WordBoundary(s, pos) THEN pos ELSE NoMatch
    ELSE LET avail == RunLen(pat[k].cls, pat[k].max, s, pos)
         IN  TryCount(pat, k, s, pos, avail)

\* greedy repetition: try n characters, then n-1, ... down to the minimum
TryCount(pat, k, s, pos, n) ==
    IF n < pat[k].min THEN NoMatch
    ELSE LET r == MatchHere(pat, k + 1, s, pos + n)
         IN  IF r # NoMatch THEN r ELSE TryCount(pat, k, s, pos, n - 1)

\* FindStringSubmatch(s)[1] of \b(pat)\b: the leftmost match, <<>> when none
FindSubmatch(pat, s) ==
    LET starts == {p \in DOMAIN s : WordBoundary(s, p) /\ MatchHere(pat, 1, s, p) # NoMatch}
    IN  IF starts = {} THEN <<>>
        ELSE LET p == CHOOSE q \in starts : \A o \in starts : q <= o
             IN  SubSeq(s, p, MatchHere(pat, 1, s, p) - 1)

\* \b(\d{1,5}[-\s]?\d{1,7}[-\s]?\d{1,7}[-\s]?\d)\b
isbn10Pattern ==
    << Piece(Digits, 1, 5), Piece(SepClass, 0, 1),
       Piece(Digits, 1, 7), Piece(SepClass, 0, 1),
       Piece(Digits, 1, 7), Piece(SepClass, 0, 1),
       Piece(Digits, 1, 1) >>

\* \b(97[89][-\s]?\d{1,5}[-\s]?\d{1,7}[-\s]?\d{1,7}[-\s]?\d)\b
isbn13Pattern ==
    << Piece({"9"}, 1, 1), Piece({"7"}, 1, 1), Piece({"8", "9"}, 1, 1),
       Piece(SepClass, 0, 1),
       Piece(Digits, 1, 5), Piece(SepClass, 0, 1),
       Piece(Digits, 1, 7), Piece(SepClass, 0, 1),
       Piece(Digits, 1, 7), Piece(SepClass, 0, 1),
       Piece(Digits, 1, 1) >>

\* the alternatives of (?i)\b(?:by|author:|written by)\s+([^,\n]+)
AuthorMarkers ==
    { <<"b", "y">>,
      <<"a", "u", "t", "h", "o", "r", ":">>,
      <<"w", "r", "i", "t", "t", "e", "n", " ", "b", "y">> }

FoldedAt(s, pos, lit) ==
    /\ pos + Len(lit) - 1 <= Len(s)
    /\ \A i \in DOMAIN lit : ToLower(s[pos + i - 1]) = lit[i]

\* len(authorPattern.FindStringSubmatch(s)) > 0
authorPattern(s) ==
    \E p \in DOMAIN s :
        /\ WordBoundary(s, p)
        /\ \E lit \in AuthorMarkers :
            /\ FoldedAt(s, p, lit)
            /\ \E m \in 1..Len(s) :
                LET q == p + Len(lit)
                IN  /\ q + m <= Len(s)
                    /\ \A i \in 0..(m - 1) : s[q + i] \in Space
                    /\ s[q + m] \notin {",", "\n"}

-----------------------------------------------------------------------------
(* googlebooks/parser.go *)

SearchTypeISBN == "isbn"
SearchTypeTitleAuthor == "title_author"
SearchTypeTitle == "title"
SearchTypeGeneralQuery == "general"

SearchTypes == {SearchTypeISBN, SearchTypeTitleAuthor, SearchTypeTitle, SearchTypeGeneralQuery}

TitleMaxLen == 100

IsbnPrefixQ == <<"i", "s", "b", "n", ":">>
IntitleOpen == <<"i", "n", "t", "i", "t", "l", "e", ":", "\"">>
IntitleClose == <<"\"">>

\* cleanISBN that strips the dashes and forgets the spaces
cleanISBNDashesOnly(isbn) == RemoveChar(isbn, "-")

cleanISBN(isbn) == RemoveChar(RemoveChar(isbn, "-"), " ")

isAllDigits(s) == \A i \in DOMAIN s : s[i] \in Digits

containsNumbers(s) == \E i \in DOMAIN s : s[i] \in Digits

validateISBN10(isbn) == Len(isbn) = 10 /\ isAllDigits(isbn)

validateISBN13(isbn) ==
    /\ Len(isbn) = 13
    /\ isAllDigits(isbn)
    /\ HasPrefix(isbn, <<"9", "7", "8">>) \/ HasPrefix(isbn, <<"9", "7", "9">>)

Parsed(q, t, i) == [query |-> q, searchType |-> t, isbn |-> i]

\* detectISBN that gives up when the ISBN-13 candidate fails validation
detectISBNNoFallThrough(cleanInput) ==
    LET m13 == FindSubmatch(isbn13Pattern, cleanInput)
        m10 == FindSubmatch(isbn10Pattern, cleanInput)
    IN  IF m13 # <<>>
        THEN IF validateISBN13(cleanISBN(m13)) THEN cleanISBN(m13) ELSE <<>>
        ELSE IF m10 # <<>> /\ validateISBN10(cleanISBN(m10)) THEN cleanISBN(m10)
        ELSE <<>>

\* lines 26-40: the ISBN found in cleanInput, <<>> when none passes validation
detectISBN(cleanInput) ==
    LET m13 == FindSubmatch(isbn13Pattern, cleanInput)
        m10 == FindSubmatch(isbn10Pattern, cleanInput)
    IN  IF m13 # <<>> /\ validateISBN13(cleanISBN(m13)) THEN cleanISBN(m13)
        ELSE IF m10 # <<>> /\ validateISBN10(cleanISBN(m10)) THEN cleanISBN(m10)
        ELSE <<>>

\* ParseQuery that hands back the untrimmed input for a title-and-author query
ParseQueryRawInput(in) ==
    LET cleanInput == TrimSpace(in)
        isbn == detectISBN(cleanInput)
    IN  IF isbn # <<>>
        THEN Parsed(IsbnPrefixQ \o isbn, SearchTypeISBN, isbn)
        ELSE IF authorPattern(cleanInput)
        THEN Parsed(in, SearchTypeTitleAuthor, <<>>)
        ELSE IF ~containsNumbers(cleanInput) /\ ByteLen(cleanInput) < TitleMaxLen
        THEN Parsed(IntitleOpen \o cleanInput \o IntitleClose, SearchTypeTitle, <<>>)
        ELSE Parsed(cleanInput, SearchTypeGeneralQuery, <<>>)

\* ParseQuery that sends a bare title without the intitle: wrapper
ParseQueryBareTitle(in) ==
    LET cleanInput == TrimSpace(in)
        isbn == detectISBN(cleanInput)
    IN  IF isbn # <<>>
        THEN Parsed(IsbnPrefixQ \o isbn, SearchTypeISBN, isbn)
        ELSE IF authorPattern(cleanInput)
        THEN Parsed(cleanInput, SearchTypeTitleAuthor, <<>>)
        ELSE IF ~containsNumbers(cleanInput) /\ ByteLen(cleanInput) < TitleMaxLen
        THEN Parsed(cleanInput, SearchTypeTitle, <<>>)
        ELSE Parsed(cleanInput, SearchTypeGeneralQuery, <<>>)

\* ParseQuery that ends its non-ISBN branches with the named result isbn as
\* it stands, the candidate that failed validation
ParseQueryLeaksCandidate(in) ==
    LET cleanInput == TrimSpace(in)
        isbn == detectISBN(cleanInput)
        m13 == FindSubmatch(isbn13Pattern, cleanInput)
        m10 == FindSubmatch(isbn10Pattern, cleanInput)
        left == IF m10 # <<>> THEN cleanISBN(m10) ELSE cleanISBN(m13)
    IN  IF isbn # <<>>
        THEN Parsed(IsbnPrefixQ \o isbn, SearchTypeISBN, isbn)
        ELSE IF authorPattern(cleanInput)
        THEN Parsed(cleanInput, SearchTypeTitleAuthor, left)
        ELSE IF ~containsNumbers(cleanInput) /\ ByteLen(cleanInput) < TitleMaxLen
        THEN Parsed(IntitleOpen \o cleanInput \o IntitleClose, SearchTypeTitle, left)
        ELSE Parsed(cleanInput, SearchTypeGeneralQuery, left)

\* ParseQuery that still takes an input of exactly 100 bytes for a bare title
ParseQueryTitleAtLimit(in) ==
    LET cleanInput == TrimSpace(in)
        isbn == detectISBN(cleanInput)
    IN  IF isbn # <<>>
        THEN Parsed(IsbnPrefixQ \o isbn, SearchTypeISBN, isbn)
        ELSE IF authorPattern(cleanInput)
        THEN Parsed(cleanInput, SearchTypeTitleAuthor, <<>>)
        ELSE IF ~containsNumbers(cleanInput) /\ ByteLen(cleanInput) <= TitleMaxLen
        THEN Parsed(IntitleOpen \o cleanInput \o IntitleClose, SearchTypeTitle, <<>>)
        ELSE Parsed(cleanInput, SearchTypeGeneralQuery, <<>>)

\* ParseQuery that looks for the author marker before it looks for an ISBN
ParseQueryAuthorFirst(in) ==
    LET cleanInput == TrimSpace(in)
        isbn == detectISBN(cleanInput)
    IN  IF authorPattern(cleanInput)
        THEN Parsed(cleanInput, SearchTypeTitleAuthor, <<>>)
        ELSE IF isbn # <<>>
        THEN Parsed(IsbnPrefixQ \o isbn, SearchTypeISBN, isbn)
        ELSE IF ~containsNumbers(cleanInput) /\ ByteLen(cleanInput) < TitleMaxLen
        THEN Parsed(IntitleOpen \o cleanInput \o IntitleClose, SearchTypeTitle, <<>>)
        ELSE Parsed(cleanInput, SearchTypeGeneralQuery, <<>>)

\* ParseQuery whose last return leaves the search type unset
ParseQueryNoFallback(in) ==
    LET cleanInput == TrimSpace(in)
        isbn == detectISBN(cleanInput)
    IN  IF isbn # <<>>
        THEN Parsed(IsbnPrefixQ \o isbn, SearchTypeISBN, isbn)
        ELSE IF authorPattern(cleanInput)
        THEN Parsed(cleanInput, SearchTypeTitleAuthor, <<>>)
        ELSE IF ~containsNumbers(cleanInput) /\ ByteLen(cleanInput) < TitleMaxLen
        THEN Parsed(IntitleOpen \o cleanInput \o IntitleClose, SearchTypeTitle, <<>>)
        ELSE Parsed(cleanInput, "", <<>>)

ParseQuery(in) ==
    LET cleanInput == TrimSpace(in)
        isbn == detectISBN(cleanInput)
    IN  IF isbn # <<>>
        THEN Parsed(IsbnPrefixQ \o isbn, SearchTypeISBN, isbn)
        ELSE IF authorPattern(cleanInput)
        THEN Parsed(cleanInput, SearchTypeTitleAuthor, <<>>)
        ELSE IF ~containsNumbers(cleanInput) /\ ByteLen(cleanInput) < TitleMaxLen
        THEN Parsed(IntitleOpen \o cleanInput \o IntitleClose, SearchTypeTitle, <<>>)
        ELSE Parsed(cleanInput, SearchTypeGeneralQuery, <<>>)

-----------------------------------------------------------------------------
(* googlebooks/client.go *)

\* a pointer is <<>> (nil) or <<x>>
Nil == <<>>
Ptr(x) == <<x>>
Deref(p) == p[1]

\* float64 confidence values are counted in 1/Unit, the completeness factor in 1/FactorScale
Unit == 100000
FactorScale == 1000

\* the map literal of calculateConfidence; a missing key reads as the zero value
baseConfidence(st) ==
    IF st = SearchTypeISBN THEN (95 * Unit) \div 100
    ELSE IF st = SearchTypeGeneralQuery THEN (70 * Unit) \div 100
    ELSE 0

Count(b) == IF b THEN 1 ELSE 0

totalPoints == Count(TRUE) + Count(TRUE) + Count(TRUE) + Count(TRUE)

\* dataPoints that counts an author list only when it has more than one author
dataPointsSeveralAuthors(info) ==
    Count(info.Title # <<>>) + Count(Len(info.Authors) > 1)
        + Count(Len(info.IndustryIdentifiers) > 0) + Count(info.Publisher # <<>>)

\* dataPoints that counts the fields that are missing
dataPointsInverted(info) ==
    Count(info.Title = <<>>) + Count(Len(info.Authors) = 0)
        + Count(Len(info.IndustryIdentifiers) = 0) + Count(info.Publisher = <<>>)

\* lines 153-175: the number of important fields the record has
dataPoints(info) ==
    Count(info.Title # <<>>) + Count(Len(info.Authors) > 0)
        + Count(Len(info.IndustryIdentifiers) > 0) + Count(info.Publisher # <<>>)

\* calculateConfidence that adds 0.3 per field instead of 0.3 * dataPoints / totalPoints
calculateConfidenceNoDivision(st, vol) ==
    LET confidence == baseConfidence(st)
    IN  IF vol.VolumeInfo # Nil
        THEN (confidence * (700 + 300 * dataPoints(Deref(vol.VolumeInfo)))) \div FactorScale
        ELSE confidence

\* confidence * (0.7 + 0.3*completeness), completeness = dataPoints / totalPoints
calculateConfidence(st, vol) ==
    LET confidence == baseConfidence(st)
    IN  IF vol.VolumeInfo # Nil
        THEN (confidence * (700 + (300 * dataPoints(Deref(vol.VolumeInfo))) \div totalPoints))
                 \div FactorScale
        ELSE confidence

DigitSeq == <<"0", "1", "2", "3", "4", "5", "6", "7", "8", "9">>
DigitVal(c) == (CHOOSE i \in DOMAIN DigitSeq : DigitSeq[i] = c) - 1

RECURSIVE DecimalValue(_)
DecimalValue(s) ==
    IF s = <<>> THEN 0
    ELSE DecimalValue(SubSeq(s, 1, Len(s) - 1)) * 10 + DigitVal(s[Len(s)])

\* strconv.Atoi: an optional sign and decimal digits (no string of the model
\* is long enough to leave the int range)
Atoi(s) ==
    LET signed == s # <<>> /\ s[1] \in {"+", "-"}
        body == IF signed THEN Tail(s) ELSE s
    IN  IF body = <<>> \/ ~isAllDigits(body)
        THEN [err |-> TRUE, n |-> 0]
        ELSE [err |-> FALSE,
              n |-> IF signed /\ s[1] = "-" THEN 0 - DecimalValue(body) ELSE DecimalValue(body)]

\* strings.Split(s, "-")[0]
FirstPart(s) ==
    IF \E i \in DOMAIN s : s[i] = "-"
    THEN SubSeq(s, 1, (CHOOSE i \in DOMAIN s : s[i] = "-" /\ \A j \in 1..(i - 1) : s[j] # "-") - 1)
    ELSE s

\* extractYear that accepts the years 1000 and 3000
extractYearInclusive(dateStr) ==
    LET whole == Atoi(dateStr)
        first == Atoi(FirstPart(dateStr))
    IN  IF ~whole.err /\ whole.n >= 1000 /\ whole.n <= 3000 THEN whole.n
        ELSE IF ~first.err /\ first.n >= 1000 /\ first.n <= 3000 THEN first.n
        ELSE 0

extractYear(dateStr) ==
    LET whole == Atoi(dateStr)
        first == Atoi(FirstPart(dateStr))
    IN  IF ~whole.err /\ whole.n > 1000 /\ whole.n < 3000 THEN whole.n
        ELSE IF ~first.err /\ first.n > 1000 /\ first.n < 3000 THEN first.n
        ELSE 0

HttpScheme == <<"h", "t", "t", "p", ":", "/", "/">>
HttpsScheme == <<"h", "t", "t", "p", "s", ":", "/", "/">>

\* strings.ReplaceAll(s, "http://", "https://")
RECURSIVE ReplaceAllHttp(_)
ReplaceAllHttp(s) ==
    IF s = <<>> THEN <<>>
    ELSE IF HasPrefix(s, HttpScheme)
    THEN HttpsScheme \o ReplaceAllHttp(SubSeq(s, Len(HttpScheme) + 1, Len(s)))
    ELSE <<Head(s)>> \o ReplaceAllHttp(Tail(s))

\* ensureHTTPS that rewrites every occurrence of http:// in the URL
ensureHTTPSReplaceAll(url) == ReplaceAllHttp(url)

ensureHTTPS(url) ==
    IF url = <<>> THEN <<>>
    ELSE IF HasPrefix(url, HttpScheme)
    THEN HttpsScheme \o SubSeq(url, Len(HttpScheme) + 1, Len(url))
    ELSE url

\* the Identifier of the last industry identifier of type ty, "" when there is none
LastIdentifier(ids, ty) ==
    LET at == {i \in DOMAIN ids : ids[i].Type = ty}
    IN  IF at = {} THEN <<>>
        ELSE ids[CHOOSE i \in at : \A j \in at : j <= i].Identifier

\* volumeToBookResult that calculates the confidence after the back-fill, with
\* the back-filled ISBN counted among the record's identifiers
volumeToBookResultCountsBackfill(vol, st, detectedISBN) ==
    LET info == Deref(vol.VolumeInfo)
        isbn10 == LastIdentifier(info.IndustryIdentifiers, "ISBN_10")
        isbn13 == LastIdentifier(info.IndustryIdentifiers, "ISBN_13")
        backfill == detectedISBN # <<>> /\ isbn10 = <<>> /\ isbn13 = <<>>
        links == info.ImageLinks
        filled == backfill /\ Len(detectedISBN) \in {10, 13}
        scored ==
            IF filled
            THEN [vol EXCEPT !.VolumeInfo =
                     Ptr([info EXCEPT !.IndustryIdentifiers =
                             Append(info.IndustryIdentifiers,
                                    [Type |-> "ISBN", Identifier |-> detectedISBN])])]
            ELSE vol
    IN  [ Title |-> info.Title,
          Authors |-> info.Authors,
          GoogleBooksVolumeID |-> vol.Id,
          SearchType |-> st,
          ISBN10 |-> IF backfill /\ Len(detectedISBN) = 10 THEN detectedISBN ELSE isbn10,
          ISBN13 |-> IF backfill /\ Len(detectedISBN) # 10 /\ Len(detectedISBN) = 13
                     THEN detectedISBN ELSE isbn13,
          Publisher |-> info.Publisher,
          Language |-> info.Language,
          PublishedYear |-> IF info.PublishedDate # <<>> THEN extractYear(info.PublishedDate) ELSE 0,
          ThumbnailURL |->
              IF links # Nil
              THEN IF Deref(links).Thumbnail # <<>> THEN ensureHTTPS(Deref(links).Thumbnail)
                   ELSE IF Deref(links).SmallThumbnail # <<>>
                   THEN ensureHTTPS(Deref(links).SmallThumbnail)
                   ELSE <<>>
              ELSE <<>>,
          GoogleBooksData |-> Nil,
          Confidence |-> calculateConfidence(st, scored) ]

\* volumeToBookResult of a volume that has a VolumeInfo (it dereferences
\* volume.VolumeInfo unguarded and panics on a nil one)
volumeToBookResult(vol, st, detectedISBN) ==
    LET info == Deref(vol.VolumeInfo)
        isbn10 == LastIdentifier(info.IndustryIdentifiers, "ISBN_10")
        isbn13 == LastIdentifier(info.IndustryIdentifiers, "ISBN_13")
        backfill == detectedISBN # <<>> /\ isbn10 = <<>> /\ isbn13 = <<>>
        links == info.ImageLinks
    IN  [ Title |-> info.Title,
          Authors |-> info.Authors,
          GoogleBooksVolumeID |-> vol.Id,
          SearchType |-> st,
          ISBN10 |-> IF backfill /\ Len(detectedISBN) = 10 THEN detectedISBN ELSE isbn10,
          ISBN13 |-> IF backfill /\ Len(detectedISBN) # 10 /\ Len(detectedISBN) = 13
                     THEN detectedISBN ELSE isbn13,
          Publisher |-> info.Publisher,
          Language |-> info.Language,
          PublishedYear |-> IF info.PublishedDate # <<>> THEN extractYear(info.PublishedDate) ELSE 0,
          ThumbnailURL |->
              IF links # Nil
              THEN IF Deref(links).Thumbnail # <<>> THEN ensureHTTPS(Deref(links).Thumbnail)
                   ELSE IF Deref(links).SmallThumbnail # <<>>
                   THEN ensureHTTPS(Deref(links).SmallThumbnail)
                   ELSE <<>>
              ELSE <<>>,
          GoogleBooksData |-> Nil,
          Confidence |-> calculateConfidence(st, vol) ]

-----------------------------------------------------------------------------
(* Inputs of the classifier *)

MaxTokens == 3

RECURSIVE Flatten(_)
Flatten(ss) == IF ss = <<>> THEN <<>> ELSE Head(ss) \o Flatten(Tail(ss))

Rep(c, n) == [i \in 1..n |-> c]

\* text fragments a query is put together from
Tokens ==
    { <<"b", "y", " ">>, <<"B", "y", " ">>, <<"b", "y">>,
      <<"a", "u", "t", "h", "o", "r", ":", " ">>,
      <<"w", "r", "i", "t", "t", "e", "n", " ", "b", "y", " ">>,
      <<" ">>, <<"\n">>, <<"\t">>, <<",">>, <<"_">>,
      <<"x">>, <<"G", "a", "t", "s", "b", "y">>, <<"1">>, <<"é">> }

TextInputs ==
    UNION { {Flatten(ts) : ts \in [1..n -> Tokens]} : n \in 0..MaxTokens }

\* ten digits that follow a three-digit prefix: nine to be grouped and a check digit
Bodies ==
    { <<"0", "7", "4", "3", "2", "7", "3", "5", "6", "5">>,
      <<"9", "7", "8", "1", "9", "7", "9", "0", "2", "4">> }

Prefixes == { <<"9", "7", "8">>, <<"9", "7", "9">>, <<"9", "7", "7">> }

SepChoices == { <<>>, <<"-">>, <<" ">> }

\* prefix / group (g digits) / publisher (p digits) / title / check digit
Grouped(pre, body, g, p, seps) ==
    pre \o seps[1] \o SubSeq(body, 1, g)
        \o seps[2] \o SubSeq(body, g + 1, g + p)
        \o seps[3] \o SubSeq(body, g + p + 1, 9)
        \o seps[4] \o SubSeq(body, 10, 10)

Grouped13Inputs ==
    { Grouped(pre, body, gp[1], gp[2], seps) :
        pre \in Prefixes, body \in Bodies,
        gp \in {x \in (1..5) \X (1..7) : x[1] + x[2] <= 8},
        seps \in [1..4 -> SepChoices] }

\* ten-digit numbers, bare and grouped as group / publisher / title / check digit
Isbn10Inputs ==
    { <<a, b, c>> \o <<"0", "7", "4", "3", "2", "7", "3">> :
        a \in {"9", "0"}, b \in {"7", "0"}, c \in {"8", "9", "7"} }
    \cup
    { <<"0">> \o seps[1] \o <<"7", "4", "3", "2">> \o seps[2]
              \o <<"7", "3", "5", "6">> \o seps[3] \o <<"7">> :
        seps \in [1..3 -> SepChoices] }

\* an identifier next to other text, and two identifiers in one query
MixedInputs ==
    { <<"G", "a", "t", "s", "b", "y", " ", "I", "S", "B", "N", ":", " ">>
          \o <<"9", "7", "8", "0", "7", "4", "3", "2", "7", "3", "5", "6", "5">>,
      <<"9", "7", "8", "0", "7", "4", "3", "2", "7", "3", "5", "6", "5">>
          \o <<" ", "b", "y", " ", "x">>,
      <<"0", "7", "4", "3", "2", "7", "3", "5", "6", "7", " ">>
          \o <<"9", "7", "8", "0", "7", "4", "3", "2", "7", "3", "5", "6", "5">>,
      <<"9", "7", "8", "0", "7", "4", "3", "2", "7", "3", "5", "6", "5">>
          \o <<" ", "0", "7", "4", "3", "2", "7", "3", "5", "6", "7">>,
      <<"9", "7", "8", "\t", "0", "7", "4", "3", "2", "7", "3", "5", "6", "5">>,
      <<"c", "l", "a", "s", "s", "i", "c", " ", "1", "9", "2", "0", "s">> }

\* queries around the length limit of a bare title
LongInputs ==
    { lead \o Rep("a", n) \o Rep("é", m) \o tail \o trail :
        lead \in {<<>>, <<" ">>}, trail \in {<<>>, <<" ">>},
        tail \in {<<>>, <<" ", "b", "y", " ", "x">>},
        n \in {0, 1} \cup ((TitleMaxLen - 2)..(TitleMaxLen + 1)),
        m \in {0, (TitleMaxLen \div 2) - 1, TitleMaxLen \div 2} }

\* the inputs of the table of TestParseQuery
TestInputs ==
    {
      << "0", "7", "4", "3", "2", "7", "3", "5", "6", "7" >>,
      << "9", "7", "8", "0", "7", "4", "3", "2", "7", "3", "5", "6", "5" >>,
      << "0", "-", "7", "4", "3", "2", "-", "7", "3", "5", "6", "-", "7" >>,
      << "9", "7", "8", "-", "0", "-", "7", "4", "3", "2", "-", "7", "3", "5", "6", "-", "5" >>,
      << "T", "h", "e", " ", "G", "r", "e", "a", "t", " ", "G", "a", "t", "s", "b", "y", " ",
         "I", "S", "B", "N", ":", " ", "9", "7", "8", "0", "7", "4", "3", "2", "7", "3", "5",
         "6", "5" >>,
      << "T", "h", "e", " ", "G", "r", "e", "a", "t", " ", "G", "a", "t", "s", "b", "y", " ",
         "b", "y", " ", "F", ".", " ", "S", "c", "o", "t", "t", " ", "F", "i", "t", "z", "g",
         "e", "r", "a", "l", "d" >>,
      << "T", "h", "e", " ", "G", "r", "e", "a", "t", " ", "G", "a", "t", "s", "b", "y" >>,
      << "c", "l", "a", "s", "s", "i", "c", " ", "a", "m", "e", "r", "i", "c", "a", "n", " ",
         "l", "i", "t", "e", "r", "a", "t", "u", "r", "e", " ", "1", "9", "2", "0", "s" >> }

\* one 13-digit and one 10-digit identifier in one query, in both orders
Isbn13Forms ==
    { <<"9", "7", "8", "0", "7", "4", "3", "2", "7", "3", "5", "6", "5">>,
      <<"9", "7", "8", "-", "0", "7", "4", "3", "2", "7", "3", "5", "6", "5">>,
      <<"9", "7", "8", "-", "0", "-", "7", "4", "3", "2", "-", "7", "3", "5", "6", "-", "5">> }

Isbn10Forms ==
    { <<"0", "7", "4", "3", "2", "7", "3", "5", "6", "7">>,
      <<"0", "-", "7", "4", "3", "2", "-", "7", "3", "5", "6", "-", "7">>,
      <<"0", " ", "7", "4", "3", "2", " ", "7", "3", "5", "6", " ", "7">> }

Joiners == { <<" ">>, <<",", " ">>, <<" ", "a", "n", "d", " ">>, <<"\n">> }

TwoIdentifierInputs ==
    { a \o j \o b : a \in Isbn13Forms, b \in Isbn10Forms, j \in Joiners }
    \cup { b \o j \o a : a \in Isbn13Forms, b \in Isbn10Forms, j \in Joiners }

ParseInputs ==
    TextInputs \cup Grouped13Inputs \cup Isbn10Inputs \cup MixedInputs \cup LongInputs
        \cup TestInputs \cup TwoIdentifierInputs

-----------------------------------------------------------------------------
(* Values of the variables an operation does not use *)

NoParse == Parsed(<<>>, "", <<>>)
NoVolume == [Id |-> <<>>, VolumeInfo |-> Nil]
NoResult ==
    [ Title |-> <<>>, Authors |-> <<>>, GoogleBooksVolumeID |-> <<>>, SearchType |-> "",
      ISBN10 |-> <<>>, ISBN13 |-> <<>>, Publisher |-> <<>>, Language |-> <<>>,
      PublishedYear |-> 0, ThumbnailURL |-> <<>>, GoogleBooksData |-> Nil, Confidence |-> 0 ]

-----------------------------------------------------------------------------
(* The classifier applied to one input *)

InitParse ==
    /\ pc = "parse"
    /\ input \in ParseInputs
    /\ parsed = NoParse
    /\ searchType = ""
    /\ detected = <<>>
    /\ volume = NoVolume
    /\ result = NoResult
    /\ items = <<>>
    /\ results = <<>>
    /\ err = ""
    /\ doErr = ""
    /\ calls = 0

CallParseQuery ==
    /\ pc = "parse"
    /\ parsed' = ParseQuery(input)
    /\ pc' = "parsed"
    /\ UNCHANGED <<input, searchType, detected, volume, result, items, results, err, doErr, calls>>

NextParse == CallParseQuery

SpecParse == InitParse /\ [][NextParse]_vars

-----------------------------------------------------------------------------
(* Candidate records *)

MaxItems == 2

Isbn10Value == <<"0", "7", "4", "3", "2", "7", "3", "5", "6", "7">>
Isbn13Value == <<"9", "7", "8", "0", "7", "4", "3", "2", "7", "3", "5", "6", "5">>
OtherIsbn13 == <<"9", "7", "8", "1", "9", "7", "9", "0", "2", "4", "5", "6", "1">>

Identifier(ty, id) == [Type |-> ty, Identifier |-> id]

Info(title, authors, ids, publisher, date, links) ==
    [ Title |-> title, Authors |-> authors, IndustryIdentifiers |-> ids,
      Publisher |-> publisher, Language |-> <<"e", "n">>,
      PublishedDate |-> date, ImageLinks |-> links ]

Links(thumbnail, small) == [Thumbnail |-> thumbnail, SmallThumbnail |-> small]

Volume(info) == [Id |-> <<"v", "1">>, VolumeInfo |-> Ptr(info)]

NilInfoVolume == [Id |-> <<"v", "0">>, VolumeInfo |-> Nil]

Titles == { <<>>, <<"G", "a", "t", "s", "b", "y">> }
Publishers == { <<>>, <<"S", "c", "r", "i", "b", "n", "e", "r">> }
AuthorLists == { <<>>, << <<"F", "i", "t", "z">> >>, << <<"F", "i", "t", "z">>, <<"P", "e", "r", "k">> >> }

IdLists ==
    { <<>>,
      << Identifier("ISBN_13", Isbn13Value) >>,
      << Identifier("ISBN_10", Isbn10Value), Identifier("ISBN_13", Isbn13Value) >>,
      << Identifier("ISBN_13", OtherIsbn13) >>,
      << Identifier("OTHER", <<"O", "C", "L", "C">>) >> }

Dates ==
    { <<>>, <<"2", "0", "0", "4">>, <<"2", "0", "0", "4", "-", "0", "9", "-", "3", "0">>,
      <<"1", "0", "0", "0">>, <<"1", "0", "0", "1">>, <<"2", "9", "9", "9">>,
      <<"3", "0", "0", "0">>, <<"3", "0", "0", "0", "-", "0", "1">>,
      <<"9", "9", "9", "-", "1", "2">>, <<"0", "2", "0", "0", "4">>,
      <<"-", "2", "0", "0", "4">>, <<"+", "2", "0", "0", "4">>,
      <<"2", "0", "0", "4", "?">>, <<"c", "2", "0", "0", "4">>, <<"-">> }

UrlRest == <<"b", "/", "c", "?", "u", "=", "h", "t", "t", "p", ":", "/", "/", "x">>

\* a URL whose scheme is written in capitals
UpperSchemeUrl == <<"H", "T", "T", "P", ":", "/", "/", "x">>

Urls ==
    { <<>>, HttpScheme \o UrlRest, HttpsScheme \o UrlRest, <<"f", "t", "p", ":", "/", "/", "x">>,
      UpperSchemeUrl }

LinkChoices == {Nil} \cup {Ptr(Links(t, sm)) : t \in Urls, sm \in Urls}

FullInfo ==
    Info(<<"G", "a", "t", "s", "b", "y">>, << <<"F", "i", "t", "z">> >>,
         << Identifier("ISBN_13", Isbn13Value) >>, <<"S", "c", "r", "i", "b", "n", "e", "r">>,
         <<"2", "0", "0", "4">>, Nil)

\* the records handed to volumeToBookResult on its own
ScoreVolumes ==
    { Volume(Info(t, a, ids, pb, <<"2", "0", "0", "4">>, Nil)) :
        t \in Titles, a \in AuthorLists, ids \in IdLists, pb \in Publishers }
    \cup { Volume([FullInfo EXCEPT !.PublishedDate = d]) : d \in Dates }
    \cup { Volume([FullInfo EXCEPT !.ImageLinks = l]) : l \in LinkChoices }
    \cup { NilInfoVolume }

DetectedChoices == { <<>>, Isbn10Value, Isbn13Value }

\* the records the collaborator returns to Search: zero to four completeness
\* signals, an insecure thumbnail, a record without VolumeInfo
SearchVolumes ==
    { Volume(Info(f[1], f[2], f[3], f[4], <<"2", "0", "0", "4">>, Nil)) :
        f \in { << <<>>, <<>>, <<>>, <<>> >>,
                << FullInfo.Title, <<>>, <<>>, <<>> >>,
                << FullInfo.Title, FullInfo.Authors, <<>>, <<>> >>,
                << FullInfo.Title, FullInfo.Authors, <<>>, FullInfo.Publisher >>,
                << <<>>, FullInfo.Authors,
                   << Identifier("ISBN_13", OtherIsbn13) >>, FullInfo.Publisher >>,
                << FullInfo.Title, FullInfo.Authors,
                   << Identifier("ISBN_13", OtherIsbn13) >>, FullInfo.Publisher >> } }
    \cup { Volume([FullInfo EXCEPT !.ImageLinks = Ptr(Links(HttpScheme \o UrlRest, <<>>))]),
           Volume([FullInfo EXCEPT !.ImageLinks = Ptr(Links(<<>>, UpperSchemeUrl))]) }
    \cup { NilInfoVolume }

\* the queries handed to Search
SearchQueries ==
    { <<>>, <<" ", " ">>,
      Isbn13Value,
      <<"9", "7", "8", "-", "0", "-", "7", "4", "3", "2", "-", "7", "3", "5", "6", "-", "5">>,
      Isbn10Value,
      <<"9", "7", "7", "0", "7", "4", "-", "3", "2", "7", "3", "-", "5", "6", "5">>,
      <<"G", "a", "t", "s", "b", "y", " ", "b", "y", " ", "F", "i", "t", "z">>,
      <<" ", "G", "a", "t", "s", "b", "y">>,
      <<"c", "l", "a", "s", "s", "i", "c", " ", "1", "9", "2", "0", "s">> }

\* the errors call.Do() returns
DoErrors == { "googleapi: Error 429: quota exceeded", "context deadline exceeded" }

-----------------------------------------------------------------------------
(* The projection applied to one record *)

InitScore ==
    /\ pc = "project"
    /\ searchType \in SearchTypes
    /\ detected \in DetectedChoices
    /\ volume \in ScoreVolumes
    /\ result = NoResult
    /\ input = <<>>
    /\ parsed = NoParse
    /\ items = <<>>
    /\ results = <<>>
    /\ err = ""
    /\ doErr = ""
    /\ calls = 0

CallVolumeToBookResult ==
    /\ pc = "project"
    /\ IF volume.VolumeInfo = Nil
       THEN pc' = "panic" /\ result' = result
       ELSE pc' = "projected" /\ result' = volumeToBookResult(volume, searchType, detected)
    /\ UNCHANGED <<input, parsed, searchType, detected, volume, items, results, err, doErr, calls>>

NextScore == CallVolumeToBookResult

SpecScore == InitScore /\ [][NextScore]_vars

-----------------------------------------------------------------------------
(* Client.Search: one invocation, split at the call to the collaborator *)

Init ==
    /\ pc = "idle"
    /\ input = <<>>
    /\ parsed = NoParse
    /\ searchType = ""
    /\ detected = <<>>
    /\ volume = NoVolume
    /\ result = NoResult
    /\ items = <<>>
    /\ results = <<>>
    /\ err = ""
    /\ doErr = ""
    /\ calls = 0

\* Search that trims the query before it checks it for emptiness
SearchTrimsFirst(query) ==
    /\ pc = "idle"
    /\ input' = query
    /\ IF TrimSpace(query) = <<>>
       THEN /\ err' = "query cannot be empty"
            /\ pc' = "returned"
            /\ UNCHANGED <<parsed, calls>>
       ELSE /\ parsed' = ParseQuery(query)
            /\ calls' = calls + 1
            /\ pc' = "calling"
            /\ err' = err
    /\ UNCHANGED <<searchType, detected, volume, result, items, results, doErr>>

\* Search without the check for the empty query
SearchNoEmptyCheck(query) ==
    /\ pc = "idle"
    /\ input' = query
    /\ parsed' = ParseQuery(query)
    /\ calls' = calls + 1
    /\ pc' = "calling"
    /\ UNCHANGED <<searchType, detected, volume, result, items, results, err, doErr>>

\* lines 50-63: reject the empty query, else classify it and call Volumes.List(searchQuery).Do()
Search(query) ==
    /\ pc = "idle"
    /\ input' = query
    /\ IF query = <<>>
       THEN /\ err' = "query cannot be empty"
            /\ pc' = "returned"
            /\ UNCHANGED <<parsed, calls>>
       ELSE /\ parsed' = ParseQuery(query)
            /\ calls' = calls + 1
            /\ pc' = "calling"
            /\ err' = err
    /\ UNCHANGED <<searchType, detected, volume, result, items, results, doErr>>

\* Search that calls the collaborator a second time when the first call failed
DoFailsRetry(e) ==
    /\ pc = "calling"
    /\ doErr' = e
    /\ IF calls < 2
       THEN calls' = calls + 1 /\ pc' = pc /\ err' = err
       ELSE calls' = calls /\ pc' = "returned" /\ err' = e
    /\ UNCHANGED <<input, parsed, searchType, detected, volume, result, items, results>>

\* lines 63-68: call.Do() failed
DoFails(e) ==
    /\ pc = "calling"
    /\ doErr' = e
    /\ err' = e
    /\ pc' = "returned"
    /\ UNCHANGED <<input, parsed, searchType, detected, volume, result, items, results, calls>>

\* the result list of a Search that derives the search type of a result from
\* the detected ISBN instead of taking the one ParseQuery returned
ConvertedTypeFromIsbn(resp, marshalled, st, isbn) ==
    [ i \in DOMAIN resp |->
        [ volumeToBookResult(resp[i],
                             IF isbn # <<>> THEN SearchTypeISBN ELSE SearchTypeGeneralQuery,
                             isbn)
            EXCEPT !.GoogleBooksData = IF marshalled[i] THEN Ptr(resp[i]) ELSE Nil ] ]

\* the result list of lines 70-83
Converted(resp, marshalled, st, isbn) ==
    [ i \in DOMAIN resp |->
        [ volumeToBookResult(resp[i], st, isbn)
            EXCEPT !.GoogleBooksData = IF marshalled[i] THEN Ptr(resp[i]) ELSE Nil ] ]

\* Search that reports an empty response as an error
DoReturnsEmptyIsError(resp, marshalled) ==
    /\ pc = "calling"
    /\ items' = resp
    /\ IF \E i \in DOMAIN resp : resp[i].VolumeInfo = Nil
       THEN pc' = "panic" /\ results' = results /\ err' = err
       ELSE /\ pc' = "returned"
            /\ results' = Converted(resp, marshalled, parsed.searchType, parsed.isbn)
            /\ err' = IF resp = <<>> THEN "no results found" ELSE err
    /\ UNCHANGED <<input, parsed, searchType, detected, volume, result, doErr, calls>>

\* Search that sorts the results by descending confidence before it returns them
DoReturnsSorted(resp, marshalled) ==
    /\ pc = "calling"
    /\ items' = resp
    /\ IF \E i \in DOMAIN resp : resp[i].VolumeInfo = Nil
       THEN pc' = "panic" /\ results' = results
       ELSE /\ pc' = "returned"
            /\ results' = SortSeq(Converted(resp, marshalled, parsed.searchType, parsed.isbn),
                                  LAMBDA a, b : a.Confidence > b.Confidence)
    /\ UNCHANGED <<input, parsed, searchType, detected, volume, result, err, doErr, calls>>

\* Search that skips a volume whose json.Marshal failed
DoReturnsSkipsUnmarshalled(resp, marshalled) ==
    /\ pc = "calling"
    /\ items' = resp
    /\ IF \E i \in DOMAIN resp : resp[i].VolumeInfo = Nil
       THEN pc' = "panic" /\ results' = results
       ELSE /\ pc' = "returned"
            /\ results' = SelectSeq(Converted(resp, marshalled, parsed.searchType, parsed.isbn),
                                    LAMBDA r : r.GoogleBooksData # Nil)
    /\ UNCHANGED <<input, parsed, searchType, detected, volume, result, err, doErr, calls>>

\* lines 63-85: call.Do() returned resp; marshalled[i] tells whether json.Marshal of
\* item i succeeded
DoReturns(resp, marshalled) ==
    /\ pc = "calling"
    /\ items' = resp
    /\ IF \E i \in DOMAIN resp : resp[i].VolumeInfo = Nil
       THEN pc' = "panic" /\ results' = results
       ELSE /\ pc' = "returned"
            /\ results' = Converted(resp, marshalled, parsed.searchType, parsed.isbn)
    /\ UNCHANGED <<input, parsed, searchType, detected, volume, result, err, doErr, calls>>

Next ==
    \/ \E query \in SearchQueries : Search(query)
    \/ \E e \in DoErrors : DoFails(e)
    \/ \E n \in 0..MaxItems :
        \E resp \in [1..n -> SearchVolumes], marshalled \in [1..n -> BOOLEAN] :
            DoReturns(resp, marshalled)

Spec == Init /\ [][Next]_vars

-----------------------------------------------------------------------------
(* Properties of the scorer, checked under SpecScore and Spec *)

\* the completeness signals of a record
SignalSet(vol) ==
    LET info == Deref(vol.VolumeInfo)
    IN  {sig \in {"title", "authors", "identifier", "publisher"} :
            \/ sig = "title" /\ info.Title # <<>>
            \/ sig = "authors" /\ info.Authors # <<>>
            \/ sig = "identifier" /\ info.IndustryIdentifiers # <<>>
            \/ sig = "publisher" /\ info.Publisher # <<>>}

\* the base confidence table the claims state: 0.95 / 0.85 / 0.70 / 0.50
StatedBase(st) ==
    IF st = SearchTypeISBN THEN (95 * Unit) \div 100
    ELSE IF st = SearchTypeTitleAuthor THEN (85 * Unit) \div 100
    ELSE IF st = SearchTypeTitle THEN (70 * Unit) \div 100
    ELSE (50 * Unit) \div 100

\* C1: whatever the search type and the record, the confidence of a result
\* lies in [0.35, 0.95]; it is never zero.
C1_ConfidenceInRange ==
    \A i \in DOMAIN results :
        /\ results[i].Confidence >= (35 * Unit) \div 100
        /\ results[i].Confidence <= (95 * Unit) \div 100

\* C2: a record with all four completeness signals scores exactly the base
\* confidence of the search type: 0.95 for Identifier, 0.85 for TitleAuthor,
\* 0.70 for Title and 0.50 for General.
C2_FullRecordScoresBase ==
    (pc = "projected" /\ Cardinality(SignalSet(volume)) = 4) =>
        result.Confidence = StatedBase(searchType)

\* C3: for a fixed search type the confidence of a record with k of the four
\* signals is (0.7 + 0.3*k/4) times the confidence of a record with all four
\* (40 * c(k) = (28 + 3k) * c(4)); under Identifier a record that misses only
\* the publisher scores 0.87875.
C3_ConfidenceScalesWithSignals ==
    pc = "projected" =>
        /\ result.Confidence * 40 =
               (28 + 3 * Cardinality(SignalSet(volume)))
                   * calculateConfidence(searchType, Volume(FullInfo))
        /\ (searchType = SearchTypeISBN
                /\ SignalSet(volume) = {"title", "authors", "identifier"}) =>
               result.Confidence = (87875 * (Unit \div 1000)) \div 100

\* an Identifier result for a record that misses only the publisher
C3_Witness ==
    /\ pc = "projected"
    /\ searchType = SearchTypeISBN
    /\ SignalSet(volume) = {"title", "authors", "identifier"}
    /\ result.Confidence = (87875 * (Unit \div 1000)) \div 100

\* C4: for a fixed search type, a record that has every signal of another
\* record and at least one more never scores lower than that record.
C4_MonotonicInCompleteness ==
    pc = "projected" =>
        \A other \in ScoreVolumes :
            (/\ other.VolumeInfo # Nil
             /\ SignalSet(other) \subseteq SignalSet(volume)
             /\ SignalSet(other) # SignalSet(volume)) =>
                calculateConfidence(searchType, other) <= result.Confidence

\* a record that scores strictly higher than one with fewer signals
C4_Witness ==
    /\ pc = "projected"
    /\ \E other \in ScoreVolumes :
        /\ other.VolumeInfo # Nil
        /\ SignalSet(other) \subseteq SignalSet(volume)
        /\ SignalSet(other) # SignalSet(volume)
        /\ calculateConfidence(searchType, other) < result.Confidence

-----------------------------------------------------------------------------
(* Properties of the classifier, checked under SpecParse *)

DigitsOf(s) == SelectSeq(s, LAMBDA x : x \in Digits)

\* s is a 13-digit number with at most one hyphen or space at each of its
\* group boundaries: prefix / group / publisher / title / check digit
IsGrouped13(s) ==
    /\ \A i \in DOMAIN s : s[i] \in Digits \cup {"-", " "}
    /\ Len(DigitsOf(s)) = 13
    /\ \E g \in 1..5, p \in 1..7 :
        /\ g + p <= 8
        /\ \A i \in DOMAIN s :
            s[i] \notin Digits =>
                /\ i > 1
                /\ s[i - 1] \in Digits
                /\ Len(DigitsOf(SubSeq(s, 1, i))) \in {3, 3 + g, 3 + g + p, 12}

HasValidPrefix(s) == SubSeq(DigitsOf(s), 1, 3) \in { <<"9", "7", "8">>, <<"9", "7", "9">> }

\* C6: a 13-digit number that begins with 978 or 979, bare or with a hyphen or
\* a space at any subset of its group boundaries, is classified as an ISBN
\* search; the detected ISBN is its 13 digits and the query contains them.
C6_Grouped13IsIdentifier ==
    (pc = "parsed" /\ IsGrouped13(input) /\ HasValidPrefix(input)) =>
        /\ parsed.searchType = SearchTypeISBN
        /\ parsed.isbn = DigitsOf(input)
        /\ Contains(parsed.query, DigitsOf(input))

\* a 978/979 number written with all four separators, a hyphen and a space among them
C6_Witness ==
    /\ pc = "parsed"
    /\ IsGrouped13(input) /\ HasValidPrefix(input)
    /\ Len(input) = 17
    /\ \E i, j \in DOMAIN input : input[i] = "-" /\ input[j] = " "
    /\ parsed.searchType = SearchTypeISBN

\* C7: a string of exactly ten decimal digits, also one that begins with 978
\* or 979, is classified as an ISBN search for those ten digits, with the
\* query "isbn:" followed by them.
C7_TenDigitsIsIdentifier ==
    (pc = "parsed" /\ Len(input) = 10 /\ \A i \in DOMAIN input : input[i] \in Digits) =>
        parsed = Parsed(<<"i", "s", "b", "n", ":">> \o input, SearchTypeISBN, input)

\* ten digits that begin with 978
C7_Witness ==
    /\ pc = "parsed"
    /\ Len(input) = 10 /\ \A i \in DOMAIN input : input[i] \in Digits
    /\ SubSeq(input, 1, 3) = <<"9", "7", "8">>
    /\ parsed.searchType = SearchTypeISBN

\* C8: a 13-digit number with an invalid prefix (977), bare or with hyphens or
\* spaces between its digit groups, is never classified as an ISBN search.
C8_InvalidPrefixNeverIdentifier ==
    (pc = "parsed" /\ IsGrouped13(input) /\ ~HasValidPrefix(input)) =>
        parsed.searchType # SearchTypeISBN

\* C9 as stated: with no ISBN detected and an author marker present, the
\* query is the input string that was passed in, character for character.
C9_QueryIsInputVerbatim ==
    (/\ pc = "parsed"
     /\ detectISBN(TrimSpace(input)) = <<>>
     /\ authorPattern(TrimSpace(input))) =>
        parsed = Parsed(input, SearchTypeTitleAuthor, <<>>)

\* C9 as amended: with no ISBN detected and an author marker present, the
\* search type is TitleAuthor, the detected ISBN is empty and the query is the
\* input with its leading and trailing whitespace removed.
C9_QueryIsTrimmedInput ==
    (/\ pc = "parsed"
     /\ detectISBN(TrimSpace(input)) = <<>>
     /\ authorPattern(TrimSpace(input))) =>
        parsed = Parsed(TrimSpace(input), SearchTypeTitleAuthor, <<>>)

\* a title-and-author query that was passed in with surrounding whitespace
C9_Witness ==
    /\ pc = "parsed"
    /\ authorPattern(TrimSpace(input))
    /\ input # TrimSpace(input)
    /\ parsed.searchType = SearchTypeTitleAuthor
    /\ parsed.query = TrimSpace(input)

\* C10 as stated: with no ISBN and no author marker, an input without a digit
\* and shorter than 100 characters is a Title search for intitle:"<input>".
C10_TitleWrapsInput ==
    (/\ pc = "parsed"
     /\ detectISBN(TrimSpace(input)) = <<>>
     /\ ~authorPattern(TrimSpace(input))
     /\ \A i \in DOMAIN input : input[i] \notin Digits
     /\ Len(input) < TitleMaxLen) =>
        parsed = Parsed(IntitleOpen \o input \o IntitleClose, SearchTypeTitle, <<>>)

\* C10 as amended: with no ISBN and no author marker, an input that, with its
\* surrounding whitespace removed, has no digit and is shorter than 100 bytes
\* is a Title search for intitle:"<trimmed input>".
C10_TitleWrapsTrimmedInput ==
    (/\ pc = "parsed"
     /\ detectISBN(TrimSpace(input)) = <<>>
     /\ ~authorPattern(TrimSpace(input))
     /\ \A i \in DOMAIN TrimSpace(input) : TrimSpace(input)[i] \notin Digits
     /\ ByteLen(TrimSpace(input)) < TitleMaxLen) =>
        parsed = Parsed(IntitleOpen \o TrimSpace(input) \o IntitleClose, SearchTypeTitle, <<>>)

\* a 99-byte title passed in with surrounding whitespace
C10_Witness ==
    /\ pc = "parsed"
    /\ input # TrimSpace(input)
    /\ ByteLen(TrimSpace(input)) = TitleMaxLen - 1
    /\ parsed.searchType = SearchTypeTitle
    /\ parsed.query = IntitleOpen \o TrimSpace(input) \o IntitleClose

\* the three signals ParseQuery looks for, in the input with its surrounding
\* whitespace removed
HasIdentifier(s) == detectISBN(TrimSpace(s)) # <<>>
HasAuthorMarker(s) == authorPattern(TrimSpace(s))
IsBareTitle(s) ==
    /\ \A i \in DOMAIN TrimSpace(s) : TrimSpace(s)[i] \notin Digits
    /\ ByteLen(TrimSpace(s)) < TitleMaxLen

\* C11: a title-only input (no identifier, no author marker, no digit, under
\* 100 characters) is a Title search whose query string is the input itself.
C11_TitleOnlyQueryIsInput ==
    (/\ pc = "parsed"
     /\ ~HasIdentifier(input)
     /\ ~HasAuthorMarker(input)
     /\ \A i \in DOMAIN input : input[i] \notin Digits
     /\ Len(input) < TitleMaxLen) =>
        /\ parsed.searchType = SearchTypeTitle
        /\ parsed.query = input

\* C12 as stated: with no identifier and no author marker, an input that has a
\* digit or 100 or more characters is a General search with an empty detected
\* identifier and the input unchanged as its query.
C12_GeneralQueryIsInput ==
    (/\ pc = "parsed"
     /\ ~HasIdentifier(input)
     /\ ~HasAuthorMarker(input)
     /\ \/ \E i \in DOMAIN input : input[i] \in Digits
        \/ Len(input) >= TitleMaxLen) =>
        parsed = Parsed(input, SearchTypeGeneralQuery, <<>>)

\* C12 as amended: with no identifier and no author marker, an input that,
\* with its surrounding whitespace removed, has a digit or 100 or more bytes is
\* a General search with an empty detected identifier and the trimmed input as
\* its query.
C12_GeneralQueryIsTrimmedInput ==
    (/\ pc = "parsed"
     /\ ~HasIdentifier(input)
     /\ ~HasAuthorMarker(input)
     /\ \/ \E i \in DOMAIN TrimSpace(input) : TrimSpace(input)[i] \in Digits
        \/ ByteLen(TrimSpace(input)) >= TitleMaxLen) =>
        parsed = Parsed(TrimSpace(input), SearchTypeGeneralQuery, <<>>)

\* a digit-free input of exactly 100 bytes passed in with surrounding whitespace
C12_Witness ==
    /\ pc = "parsed"
    /\ input # TrimSpace(input)
    /\ \A i \in DOMAIN input : input[i] \notin Digits
    /\ ByteLen(TrimSpace(input)) = TitleMaxLen
    /\ parsed = Parsed(TrimSpace(input), SearchTypeGeneralQuery, <<>>)

\* C13: the most specific signal decides the search type, Identifier before
\* TitleAuthor before Title before General: an input with an identifier is an
\* ISBN search also when it has an author marker; an input with an author
\* marker and no identifier is TitleAuthor whether it would otherwise be a
\* bare title or a general query; General is left for inputs without any signal.
C13_MostSpecificSignalWins ==
    pc = "parsed" =>
        /\ HasIdentifier(input) => parsed.searchType = SearchTypeISBN
        /\ (~HasIdentifier(input) /\ HasAuthorMarker(input)) =>
               parsed.searchType = SearchTypeTitleAuthor
        /\ (~HasIdentifier(input) /\ ~HasAuthorMarker(input) /\ IsBareTitle(input)) =>
               parsed.searchType = SearchTypeTitle
        /\ parsed.searchType = SearchTypeGeneralQuery =>
               (~HasIdentifier(input) /\ ~HasAuthorMarker(input) /\ ~IsBareTitle(input))

\* an input with an identifier and an author marker, classified as an ISBN search
C13_Witness ==
    /\ pc = "parsed"
    /\ HasIdentifier(input)
    /\ HasAuthorMarker(input)
    /\ parsed.searchType = SearchTypeISBN

\* C14: ParseQuery returns for every input, with exactly one of the four
\* search types; an input with no identifier, no author marker and not a bare
\* title ends at the General fallback.
C14_AlwaysOneOfFourTypes ==
    /\ pc \in {"parse", "parsed"}
    /\ pc = "parsed" =>
        /\ parsed.searchType \in
               {SearchTypeISBN, SearchTypeTitleAuthor, SearchTypeTitle, SearchTypeGeneralQuery}
        /\ (~HasIdentifier(input) /\ ~HasAuthorMarker(input) /\ ~IsBareTitle(input)) =>
               parsed.searchType = SearchTypeGeneralQuery

\* an input made of a line break, a comma and a digit only, ended at General
C14_Witness ==
    /\ pc = "parsed"
    /\ input # <<>>
    /\ \A i \in DOMAIN input : input[i] \in {"\n", ",", "1"}
    /\ \E i \in DOMAIN input : input[i] = "1"
    /\ \E i \in DOMAIN input : input[i] = "\n"
    /\ parsed.searchType = SearchTypeGeneralQuery

-----------------------------------------------------------------------------
(* Properties of Client.Search, checked under Spec, and of the projection,  *)
(* checked under SpecScore                                                  *)

\* C15: Search called with the empty query returns the error 'query cannot be
\* empty' and no results, without classifying the query and without a call to
\* the collaborator; a query that reaches the collaborator is not empty.
C15_EmptyQueryRejected ==
    /\ (pc = "returned" /\ input = <<>>) =>
           /\ err = "query cannot be empty"
           /\ results = <<>>
           /\ parsed = NoParse
           /\ calls = 0
    /\ pc = "calling" => input # <<>>

\* Search returned from the empty query
C15_Witness ==
    /\ pc = "returned"
    /\ input = <<>>
    /\ err = "query cannot be empty"
    /\ calls = 0

\* C16: when the call to the collaborator fails, Search returns that same
\* error and no results; a Search invocation never makes more than one call.
C16_ErrorPropagatedNoRetry ==
    /\ calls <= 1
    /\ doErr # "" =>
           /\ pc = "returned"
           /\ err = doErr
           /\ results = <<>>

\* Search returned the collaborator's error after one call
C16_Witness ==
    /\ pc = "returned"
    /\ doErr \in DoErrors
    /\ err = doErr
    /\ results = <<>>
    /\ calls = 1

\* C17: when the collaborator returns zero candidates and no error, Search
\* returns an empty result list and no error.
C17_NoCandidatesIsEmptyList ==
    (pc = "returned" /\ calls = 1 /\ doErr = "" /\ items = <<>>) =>
        /\ results = <<>>
        /\ err = ""

\* Search returned after the collaborator answered with no candidates
C17_Witness ==
    /\ pc = "returned"
    /\ calls = 1
    /\ doErr = ""
    /\ items = <<>>
    /\ results = <<>>
    /\ err = ""

\* C18: Search returns one BookResult per candidate, the i-th result made of
\* the i-th candidate; the list is not ordered by confidence.
C18_OnePerCandidateInOrder ==
    (pc = "returned" /\ calls = 1 /\ doErr = "") =>
        /\ Len(results) = Len(items)
        /\ \A i \in DOMAIN items :
            /\ results[i].GoogleBooksVolumeID = items[i].Id
            /\ results[i].Title = Deref(items[i].VolumeInfo).Title
            /\ results[i].Authors = Deref(items[i].VolumeInfo).Authors
            /\ results[i].Publisher = Deref(items[i].VolumeInfo).Publisher
            /\ results[i].GoogleBooksData \in {Nil, Ptr(items[i])}

\* Search returned a list in which a later result has the higher confidence
C18_Witness ==
    /\ pc = "returned"
    /\ Len(results) = Len(items)
    /\ \E i, j \in DOMAIN results :
        /\ i < j
        /\ results[i].Confidence < results[j].Confidence
        /\ results[i].Title = Deref(items[i].VolumeInfo).Title
        /\ results[j].Title = Deref(items[j].VolumeInfo).Title
        /\ results[i].Title # results[j].Title

\* the identifiers of the record's own identifier list
OwnIdentifiers(vol) ==
    LET ids == Deref(vol.VolumeInfo).IndustryIdentifiers
    IN  {ids[i].Identifier : i \in DOMAIN ids}

\* C19: whenever an identifier was detected and the record's own identifier
\* list does not contain it, the projected result carries the detected
\* identifier in the matching slot: ten digits in ISBN10, thirteen in ISBN13.
C19_DetectedIdentifierBackfilled ==
    (/\ pc = "projected"
     /\ detected # <<>>
     /\ detected \notin OwnIdentifiers(volume)) =>
        /\ Len(detected) = 10 => result.ISBN10 = detected
        /\ Len(detected) = 13 => result.ISBN13 = detected

\* C20: a failure to serialize a candidate does not fail Search and does not
\* drop or alter the candidate's result: every candidate has its result at
\* its position, with the fields and the confidence of its projection, and a
\* raw payload that is either the candidate's or empty.
C20_MarshalFailureKeepsResult ==
    (pc = "returned" /\ calls = 1 /\ doErr = "") =>
        /\ err = ""
        /\ Len(results) = Len(items)
        /\ \A i \in DOMAIN items :
            /\ [results[i] EXCEPT !.GoogleBooksData = Nil]
                   = volumeToBookResult(items[i], parsed.searchType, parsed.isbn)
            /\ results[i].GoogleBooksData \in {Nil, Ptr(items[i])}

\* Search returned two results, the first without its raw payload and the
\* second with it, both with a confidence above zero
C20_Witness ==
    /\ pc = "returned"
    /\ err = ""
    /\ Len(results) = 2
    /\ results[1].GoogleBooksData = Nil
    /\ results[1].Title = Deref(items[1].VolumeInfo).Title
    /\ results[1].Confidence > 0
    /\ results[2].GoogleBooksData = Ptr(items[2])

\* the part of a date string before its first '-' is a decimal number with an
\* optional plus sign
IsYearToken(t) ==
    \/ t # <<>> /\ \A i \in DOMAIN t : t[i] \in Digits
    \/ Len(t) > 1 /\ t[1] = "+" /\ \A i \in 2..Len(t) : t[i] \in Digits

YearTokenValue(t) == DecimalValue(SelectSeq(t, LAMBDA c : c \in Digits))

\* C21: the published year of a projected result is 0 (unset) or lies strictly
\* between 1000 and 3000; it is the number at the head of the record's date
\* string (the whole string, or the part before the first '-') when that
\* number is in the range, and 0 for a missing date, a malformed one or a
\* number out of the range.
C21_YearUnsetOrInOpenRange ==
    pc = "projected" =>
        LET date == Deref(volume.VolumeInfo).PublishedDate
            token == FirstPart(date)
            year == result.PublishedYear
        IN  /\ year = 0 \/ (year > 1000 /\ year < 3000)
            /\ year =
                   IF /\ IsYearToken(token)
                      /\ YearTokenValue(token) > 1000
                      /\ YearTokenValue(token) < 3000
                   THEN YearTokenValue(token)
                   ELSE 0

\* a full date whose year was taken from the part before the first '-'
C21_Witness ==
    /\ pc = "projected"
    /\ \E i \in DOMAIN Deref(volume.VolumeInfo).PublishedDate :
           Deref(volume.VolumeInfo).PublishedDate[i] = "-"
    /\ result.PublishedYear = 2004

\* the thumbnail URL the projection takes from the record: the primary one,
\* the small one when there is no primary one
ChosenThumbnail(vol) ==
    LET links == Deref(vol.VolumeInfo).ImageLinks
    IN  IF links = Nil THEN <<>>
        ELSE IF Deref(links).Thumbnail # <<>> THEN Deref(links).Thumbnail
        ELSE Deref(links).SmallThumbnail

\* C22: when the chosen thumbnail URL begins with http://, the projected URL
\* is https:// followed by the rest of the URL unchanged; any other URL
\* (https already, or empty) is the projected URL unchanged.
C22_OnlyLeadingSchemeRewritten ==
    pc = "projected" =>
        LET url == ChosenThumbnail(volume)
        IN  IF Len(url) >= 7 /\ SubSeq(url, 1, 7) = <<"h", "t", "t", "p", ":", "/", "/">>
            THEN result.ThumbnailURL =
                     <<"h", "t", "t", "p", "s", ":", "/", "/">> \o SubSeq(url, 8, Len(url))
            ELSE result.ThumbnailURL = url

\* an http:// URL with a second http:// in its query, which the projection kept
C22_Witness ==
    /\ pc = "projected"
    /\ Len(ChosenThumbnail(volume)) >= 7
    /\ SubSeq(ChosenThumbnail(volume), 1, 7) = <<"h", "t", "t", "p", ":", "/", "/">>
    /\ Len(result.ThumbnailURL) >= 8
    /\ SubSeq(result.ThumbnailURL, 1, 8) = <<"h", "t", "t", "p", "s", ":", "/", "/">>
    /\ Contains(SubSeq(result.ThumbnailURL, 9, Len(result.ThumbnailURL)),
                <<"h", "t", "t", "p", ":", "/", "/">>)

\* C23: every result Search returns with a non-empty thumbnail URL has a
\* thumbnail URL that starts with https://, whatever URL the record carried.
C23_ThumbnailAlwaysHttps ==
    \A i \in DOMAIN results :
        results[i].ThumbnailURL # <<>> =>
            /\ Len(results[i].ThumbnailURL) >= 8
            /\ SubSeq(results[i].ThumbnailURL, 1, 8) = <<"h", "t", "t", "p", "s", ":", "/", "/">>

\* C24: every result of one Search call carries the search type ParseQuery
\* returned for the call's query, so all results of the call carry the same
\* one, and the confidence of a result is the one calculated for the search
\* type stored in it.
C24_OneSearchTypePerCall ==
    (pc = "returned" /\ calls = 1) =>
        \A i \in DOMAIN results :
            /\ results[i].SearchType = ParseQuery(input).searchType
            /\ \A j \in DOMAIN results : results[j].SearchType = results[i].SearchType
            /\ results[i].Confidence = calculateConfidence(results[i].SearchType, items[i])

\* Search returned two results for a title-and-author query
C24_Witness ==
    /\ pc = "returned"
    /\ Len(results) = 2
    /\ parsed.searchType = SearchTypeTitleAuthor
    /\ results[1].SearchType = SearchTypeTitleAuthor
    /\ results[2].SearchType = SearchTypeTitleAuthor

\* C25: a query in which no ISBN is detected, a title-and-author phrase or a
\* title-only phrase included, gives results of search type General, and a
\* result whose record has title, authors, identifier and publisher then has
\* confidence 0.70.
C25_NoIsbnIsGeneralAt070 ==
    (pc = "returned" /\ calls = 1 /\ parsed.isbn = <<>>) =>
        \A i \in DOMAIN results :
            /\ results[i].SearchType = SearchTypeGeneralQuery
            /\ Cardinality(SignalSet(items[i])) = 4 =>
                   results[i].Confidence = (70 * Unit) \div 100

\* C28: a query that is not empty and consists of whitespace only is not
\* rejected as empty: Search classifies it as a Title search for the empty
\* title phrase, intitle:"", and calls the collaborator with it.
C28_WhitespaceQueryIsSearched ==
    (/\ pc # "idle"
     /\ input # <<>>
     /\ \A i \in DOMAIN input : input[i] \in {" ", "\t", "\n", "\f", "\r"}) =>
        /\ err # "query cannot be empty"
        /\ calls = 1
        /\ parsed = [ query |-> <<"i", "n", "t", "i", "t", "l", "e", ":", "\"", "\"">>,
                      searchType |-> SearchTypeTitle,
                      isbn |-> <<>> ]

\* Search is calling the collaborator for a query of two spaces
C28_Witness ==
    /\ pc = "calling"
    /\ input = <<" ", " ">>
    /\ calls = 1
    /\ parsed.searchType = SearchTypeTitle
    /\ parsed.query = <<"i", "n", "t", "i", "t", "l", "e", ":", "\"", "\"">>

\* C26: ParseQuery returns the search type ISBN exactly when the detected
\* identifier it returns is not empty; a detected identifier is 10 or 13
\* decimal digits, 13 only with the prefix 978 or 979, and the query is then
\* isbn: followed by it; a candidate that failed validation is not returned.
C26_IsbnTypeIffDetected ==
    pc = "parsed" =>
        /\ (parsed.searchType = SearchTypeISBN) <=> (parsed.isbn # <<>>)
        /\ parsed.isbn # <<>> =>
            /\ \A i \in DOMAIN parsed.isbn : parsed.isbn[i] \in Digits
            /\ Len(parsed.isbn) \in {10, 13}
            /\ Len(parsed.isbn) = 13 =>
                   SubSeq(parsed.isbn, 1, 3) \in { <<"9", "7", "8">>, <<"9", "7", "9">> }
            /\ parsed.query = <<"i", "s", "b", "n", ":">> \o parsed.isbn

\* an input in which the ISBN-13 pattern found a candidate that failed
\* validation, returned without a detected identifier
C26_Witness ==
    /\ pc = "parsed"
    /\ FindSubmatch(isbn13Pattern, TrimSpace(input)) # <<>>
    /\ parsed.searchType # SearchTypeISBN
    /\ parsed.isbn = <<>>

\* C27: when the input holds a 10-digit identifier and a 13-digit identifier
\* as separate tokens, in either order, the one identifier detected is the
\* 13-digit one.
C27_ThirteenDigitWins ==
    (/\ pc = "parsed"
     /\ \E a \in Isbn13Forms, b \in Isbn10Forms, j \in Joiners :
            input = a \o j \o b \/ input = b \o j \o a) =>
        /\ parsed.searchType = SearchTypeISBN
        /\ parsed.isbn = <<"9", "7", "8", "0", "7", "4", "3", "2", "7", "3", "5", "6", "5">>

\* C29: the confidence of a projected result depends only on the search type
\* and the record's four completeness signals: the same record under the same
\* search type scores the same with every detected identifier, also with none
\* (an identifier back-filled from the query adds nothing), and so does every
\* record with the same signals.
C29_ConfidenceIgnoresDetectedIsbn ==
    pc = "projected" =>
        /\ \A d \in DetectedChoices :
               volumeToBookResult(volume, searchType, d).Confidence = result.Confidence
        /\ \A other \in ScoreVolumes :
               (other.VolumeInfo # Nil /\ SignalSet(other) = SignalSet(volume)) =>
                   volumeToBookResult(other, searchType, <<>>).Confidence = result.Confidence

\* an ISBN result whose ISBN13 was back-filled from the query and whose
\* confidence is that of a record with three of the four signals
C29_Witness ==
    /\ pc = "projected"
    /\ searchType = SearchTypeISBN
    /\ detected # <<>>
    /\ SignalSet(volume) = {"title", "authors", "publisher"}
    /\ result.ISBN13 = detected
    /\ result.Confidence = (87875 * (Unit \div 1000)) \div 100

\* C30: projecting a record without VolumeInfo does not fail; the result has
\* empty normalized fields and the base confidence of the search type, with
\* no completeness adjustment.
C30_NilVolumeInfoProjects ==
    (pc # "project" /\ volume.VolumeInfo = Nil) =>
        /\ pc = "projected"
        /\ result.Title = <<>>
        /\ result.Authors = <<>>
        /\ result.SearchType = searchType
        /\ result.Confidence = baseConfidence(searchType)

====
